---- MODULE Spec2Model ----
(***************************************************************************)
(* A model of the LegoImage colour engine (src/utils/colors.py) and of the *)
(* PixelMap run that consumes it (src/main.py).                            *)
(*                                                                         *)
(* Numbers.  A Python int is a TLA+ integer.  A Python float is an exact   *)
(* fraction [n |-> numerator, d |-> denominator] in lowest terms, d > 0:   *)
(* the arithmetic of ColorConv is carried out exactly, so that             *)
(* round(x * 255) sees the halves the code's inputs can produce.  The one  *)
(* place the code leaves the rationals, math.sqrt in Color.diff, is        *)
(* computed in fixed point with DiffScale units per 1.0.                   *)
(***************************************************************************)
EXTENDS Integers, Sequences, FiniteSets, TLC

----------------------------------------------------------------------------
(* Exact fractions standing for Python floats                              *)

RECURSIVE Gcd(_, _)
Gcd(a, b) == IF b = 0 THEN a ELSE Gcd(b, a % b)

Abs(x) == IF x < 0 THEN -x ELSE x

\* n/d in lowest terms with a positive denominator
Lowest(n, d, g) ==
    IF d < 0 THEN [n |-> (-n) \div g, d |-> (-d) \div g]
    ELSE [n |-> n \div g, d |-> d \div g]

Frac(n, d) == Lowest(n, d, Gcd(Abs(n), Abs(d)))

FromInt(k) == [n |-> k, d |-> 1]

\* x + y over the least common denominator, g = gcd(x.d, y.d)
AddOver(x, y, g) ==
    Frac(x.n * (y.d \div g) + y.n * (x.d \div g), (x.d \div g) * y.d)

FAdd(x, y) == AddOver(x, y, Gcd(x.d, y.d))

FNeg(x) == [n |-> -x.n, d |-> x.d]

FSub(x, y) == FAdd(x, FNeg(y))

\* x * y, cancelling g1 = gcd(x.n, y.d) and g2 = gcd(y.n, x.d) first
MulBy(x, y, g1, g2) ==
    Frac((x.n \div g1) * (y.n \div g2), (x.d \div g2) * (y.d \div g1))

FMul(x, y) == MulBy(x, y, Gcd(Abs(x.n), y.d), Gcd(Abs(y.n), x.d))

\* x / y for y # 0
FDiv(x, y) ==
    FMul(x, IF y.n < 0 THEN [n |-> -y.d, d |-> -y.n] ELSE [n |-> y.d, d |-> y.n])

LtOver(x, y, g) == x.n * (y.d \div g) < y.n * (x.d \div g)

FLt(x, y) == LtOver(x, y, Gcd(x.d, y.d))

FLe(x, y) == x = y \/ FLt(x, y)

FAbs(x) == [n |-> Abs(x.n), d |-> x.d]

FMax(x, y) == IF FLt(x, y) THEN y ELSE x

FMin(x, y) == IF FLt(y, x) THEN y ELSE x

\* math.floor(x)
Floor(x) == x.n \div x.d

\* Python's x % m for floats and m > 0: the result lies in [0, m)
FMod(x, m) == FSub(x, FMul(FromInt(Floor(FDiv(x, m))), m))

\* Python's round(x): nearest integer, halves to the even neighbour
PyRound(x) ==
    IF 2 * (x.n % x.d) < x.d THEN Floor(x)
    ELSE IF 2 * (x.n % x.d) > x.d THEN Floor(x) + 1
    ELSE IF Floor(x) % 2 = 0 THEN Floor(x) ELSE Floor(x) + 1

Zero == FromInt(0)

One == FromInt(1)

Two == FromInt(2)

----------------------------------------------------------------------------
(* ColorConv (src/utils/colors.py)                                         *)

\* the 8-bit resolution every conversion multiplies or divides by
Res == 255

FRes == FromInt(Res)

Max3(a, b, c) == FMax(FMax(a, b), c)

Min3(a, b, c) == FMin(FMin(a, b), c)

\* a negative hue is left as it is
WrapHue_not(h) == h

\* rgb_to_hsl, lines 56-68: the hue for delta # 0, wrapped into [0, 1)
WrapHue(h) == IF FLt(h, Zero) THEN FAdd(h, One) ELSE h

Hue(r, g, b, cmax, delta) ==
    WrapHue(FDiv(
        IF cmax = r THEN FDiv(FSub(g, b), delta)
        ELSE IF cmax = g THEN FAdd(FDiv(FSub(b, r), delta), FromInt(2))
        ELSE FAdd(FDiv(FSub(r, g), delta), FromInt(4)),
        FromInt(6)))

\* the saturation by the formula of the dark half, whatever l is
Saturation_dark(l, delta, sum) == FDiv(delta, sum)

\* rgb_to_hsl, lines 45-53: the saturation for delta # 0
Saturation(l, delta, sum) ==
    IF FLt(l, Frac(1, 2)) THEN FDiv(delta, sum)
    ELSE FDiv(delta, FSub(Two, sum))

\* rgb_to_hsl, lines 40-70, given cmax and cmin
HslOf(r, g, b, cmax, cmin, delta, l) ==
    IF delta # Zero
        THEN <<Hue(r, g, b, cmax, delta),
               Saturation(l, delta, FAdd(cmax, cmin)), l>>
        ELSE <<Zero, Zero, l>>

HslBetween(r, g, b, cmax, cmin) ==
    HslOf(r, g, b, cmax, cmin, FSub(cmax, cmin), FDiv(FAdd(cmax, cmin), Two))

\* ColorConv.rgb_to_hsl: <<h, s, l>> of normalized r, g, b
rgb_to_hsl(r, g, b) == HslBetween(r, g, b, Max3(r, g, b), Min3(r, g, b))

\* the permutation of the first sextant, whatever h is
Sextant_first(h, c, x, m) == <<FAdd(c, m), FAdd(x, m), m>>

\* hsl_to_rgb, lines 99-119: the sextant of h picks the permutation of
\* c, x, 0, and m is added to each
Sextant(h, c, x, m) ==
    IF FLe(Zero, h) /\ FLt(h, Frac(1, 6)) THEN <<FAdd(c, m), FAdd(x, m), m>>
    ELSE IF FLe(Frac(1, 6), h) /\ FLt(h, Frac(2, 6))
        THEN <<FAdd(x, m), FAdd(c, m), m>>
    ELSE IF FLe(Frac(2, 6), h) /\ FLt(h, Frac(3, 6))
        THEN <<m, FAdd(c, m), FAdd(x, m)>>
    ELSE IF FLe(Frac(3, 6), h) /\ FLt(h, Frac(4, 6))
        THEN <<m, FAdd(x, m), FAdd(c, m)>>
    ELSE IF FLe(Frac(4, 6), h) /\ FLt(h, Frac(5, 6))
        THEN <<FAdd(x, m), m, FAdd(c, m)>>
    ELSE <<FAdd(c, m), m, FAdd(x, m)>>

\* hsl_to_rgb, lines 93-97, given the chroma c
WithChroma(h, l, c) ==
    Sextant(h, c,
            FMul(c, FSub(One, FAbs(FSub(FMod(FMul(h, FromInt(6)), Two), One)))),
            FSub(l, FDiv(c, Two)))

\* ColorConv.hsl_to_rgb: <<r, g, b>> of normalized h, s, l
hsl_to_rgb(h, s, l) ==
    WithChroma(h, l, FMul(FSub(One, FAbs(FSub(FMul(Two, l), One))), s))

\* base_255_to_1 dividing by the number of levels, 256, instead of 255
base_255_to_1_by_256(color_iterable) ==
    [i \in DOMAIN color_iterable |-> Frac(color_iterable[i], Res + 1)]

\* ColorConv.base_255_to_1: x / 255 for each component (ints in, floats out)
base_255_to_1(color_iterable) ==
    [i \in DOMAIN color_iterable |-> Frac(color_iterable[i], Res)]

\* ColorConv.base_1_to_255: round(x * 255) for each component (ints out)
base_1_to_255(color_iterable) ==
    [i \in DOMAIN color_iterable |-> PyRound(FMul(color_iterable[i], FRes))]

\* clamp_to_255_res without the rounding
clamp_to_255_res_unrounded(color_iterable) == color_iterable

\* ColorConv.clamp_to_255_res: round(x * 255) / 255 for each component
clamp_to_255_res(color_iterable) ==
    [i \in DOMAIN color_iterable |->
        Frac(PyRound(FMul(color_iterable[i], FRes)), Res)]

\* outcome of a call: the exception it raised ("" for none) and its result
Return(v) == [exc |-> "", ret |-> v]

Raise(e) == [exc |-> e, ret |-> <<>>]

\* strings are sequences of one-character strings
HexDigits == <<"0", "1", "2", "3", "4", "5", "6", "7",
               "8", "9", "a", "b", "c", "d", "e", "f">>

UpperDigits == <<"0", "1", "2", "3", "4", "5", "6", "7",
                 "8", "9", "A", "B", "C", "D", "E", "F">>

IsHexDigit(ch) ==
    \E i \in 1..16 : HexDigits[i] = ch \/ UpperDigits[i] = ch

DigitVal(ch) ==
    (CHOOSE i \in 1..16 : HexDigits[i] = ch \/ UpperDigits[i] = ch) - 1

\* format spec 02x applied to an int: lowercase hex, zero-padded to width 2
RECURSIVE HexOf(_)
HexOf(v) ==
    IF v < 16 THEN <<HexDigits[v + 1]>>
    ELSE HexOf(v \div 16) \o <<HexDigits[(v % 16) + 1]>>

Format02x(v) ==
    IF v < 0 THEN <<"-">> \o HexOf(-v)
    ELSE IF v < 16 THEN <<"0">> \o HexOf(v)
    ELSE HexOf(v)

\* rgb_to_hex, line 146: the text without alpha, from the 0..255 channels
HexText(c) ==
    <<"#">> \o Format02x(c[1]) \o Format02x(c[2]) \o Format02x(c[3])

\* ColorConv.rgb_to_hex: a is <<>> when the alpha argument is absent (None)
\* and <<x>> when the float x is passed.  With alpha, a * 255 is a float, and
\* the format code x is not defined for floats: the f-string raises.
rgb_to_hex(r, g, b, a) ==
    IF a # <<>> THEN Raise("ValueError")
    ELSE Return(HexText(base_1_to_255(<<r, g, b>>)))

\* str.lstrip('#'): every leading '#' is removed
RECURSIVE lstrip(_)
lstrip(txt) ==
    IF txt # <<>> /\ Head(txt) = "#" THEN lstrip(Tail(txt)) ELSE txt

\* int(pair, 16) of a two-character string; <<>> when int raises ValueError,
\* else <<value>>.  int accepts a sign or a blank before the digit and a
\* blank after it.
Int16Of(c1, c2) ==
    IF IsHexDigit(c1) /\ IsHexDigit(c2)
        THEN <<16 * DigitVal(c1) + DigitVal(c2)>>
    ELSE IF c1 \in {"+", " "} /\ IsHexDigit(c2) THEN <<DigitVal(c2)>>
    ELSE IF c1 = "-" /\ IsHexDigit(c2) THEN <<-DigitVal(c2)>>
    ELSE IF IsHexDigit(c1) /\ c2 = " " THEN <<DigitVal(c1)>>
    ELSE <<>>

int16(pair) == Int16Of(pair[1], pair[2])

\* hex_to_rgb, lines 166-175, on the parsed channels
Parsed(r, g, b, a) ==
    IF r = <<>> \/ g = <<>> \/ b = <<>> \/ a = <<>> THEN Raise("ValueError")
    ELSE Return(base_255_to_1(<<r[1], g[1], b[1], a[1]>>))

\* hex_to_rgb, lines 162-175, on the stripped text
Stripped(hv) ==
    IF Len(hv) \notin {6, 8} THEN Raise("ValueError")
    ELSE Parsed(int16(SubSeq(hv, 1, 2)), int16(SubSeq(hv, 3, 4)),
                int16(SubSeq(hv, 5, 6)),
                IF Len(hv) = 8 THEN int16(SubSeq(hv, 7, 8)) ELSE <<1>>)

\* ColorConv.hex_to_rgb: <<r, g, b, a>> normalized, or ValueError
hex_to_rgb(hex_value) == Stripped(lstrip(hex_value))

----------------------------------------------------------------------------
(* Color (src/utils/colors.py): a record of the four private fields        *)

MkColor(r, g, b, a) == [r |-> r, g |-> g, b |-> b, a |-> a]

\* the fields __init__ assigns before it looks at its input
DefaultColor == MkColor(Zero, Zero, Zero, One)

InUnit(x) == FLe(Zero, x) /\ FLe(x, One)

\* outcome of a mutator: the exception raised ("" for none), the object after
Done(c) == [exc |-> "", self |-> c]

Failed(e, c) == [exc |-> e, self |-> c]

\* self.__r, self.__g, self.__b, self.__a = q
Stored(q) == Done(MkColor(q[1], q[2], q[3], q[4]))

\* Color.rgb (getter)
rgb_get(self) == <<self.r, self.g, self.b, self.a>>

\* Color.rgb255
rgb255(self) == base_1_to_255(<<self.r, self.g, self.b, self.a>>)

\* the setter without its two assertions
rgb_set_unchecked(self, value) ==
    Stored(clamp_to_255_res(
        <<value[1], value[2], value[3],
          IF Len(value) > 3 THEN value[4] ELSE self.a>>))

\* Color.rgb (setter): value has 3 or 4 components
rgb_set(self, value) ==
    IF ~(InUnit(value[1]) /\ InUnit(value[2]) /\ InUnit(value[3]))
        THEN Failed("AssertionError", self)
    ELSE IF Len(value) > 3 /\ ~InUnit(value[4])
        THEN Failed("AssertionError", self)
    ELSE Stored(clamp_to_255_res(
             <<value[1], value[2], value[3],
               IF Len(value) > 3 THEN value[4] ELSE self.a>>))

\* Color.hsl (getter)
hsl_get(self) == rgb_to_hsl(self.r, self.g, self.b) \o <<self.a>>

\* Color.hsl255
hsl255(self) ==
    base_1_to_255(rgb_to_hsl(self.r, self.g, self.b) \o <<self.a>>)

\* Color.hsl (setter): value has 3 or 4 components
hsl_set(self, value) ==
    IF ~(InUnit(value[1]) /\ InUnit(value[2]) /\ InUnit(value[3]))
        THEN Failed("AssertionError", self)
    ELSE IF Len(value) > 3 /\ ~InUnit(value[4])
        THEN Failed("AssertionError", self)
    ELSE Stored(clamp_to_255_res(
             hsl_to_rgb(value[1], value[2], value[3])
                 \o <<IF Len(value) > 3 THEN value[4] ELSE self.a>>))

\* Color.hex (getter)
hex_get(self) == rgb_to_hex(self.r, self.g, self.b, <<>>)

\* Color.hexa
hexa(self) == rgb_to_hex(self.r, self.g, self.b, <<self.a>>)

\* Color.hex (setter)
SetParsed(self, parsed) ==
    IF parsed.exc # "" THEN Failed(parsed.exc, self)
    ELSE rgb_set(self, parsed.ret)

hex_set(self, value) == SetParsed(self, hex_to_rgb(value))

\* round(value * 255) / 255, the body of the r, g, b and alpha setters
Quantize(value) == Frac(PyRound(FMul(value, FRes)), Res)

\* Color.r (setter)
r_set(self, value) ==
    IF ~InUnit(value) THEN Failed("AssertionError", self)
    ELSE Done([self EXCEPT !.r = Quantize(value)])

\* Color.g (setter)
g_set(self, value) ==
    IF ~InUnit(value) THEN Failed("AssertionError", self)
    ELSE Done([self EXCEPT !.g = Quantize(value)])

\* Color.b (setter)
b_set(self, value) ==
    IF ~InUnit(value) THEN Failed("AssertionError", self)
    ELSE Done([self EXCEPT !.b = Quantize(value)])

\* Color.h (setter)
h_of(self, value, hsl) == rgb_set(self, hsl_to_rgb(value, hsl[2], hsl[3]))

h_set(self, value) ==
    IF ~InUnit(value) THEN Failed("AssertionError", self)
    ELSE h_of(self, value, hsl_get(self))

\* Color.s (setter)
s_of(self, value, hsl) == rgb_set(self, hsl_to_rgb(hsl[1], value, hsl[3]))

s_set(self, value) ==
    IF ~InUnit(value) THEN Failed("AssertionError", self)
    ELSE s_of(self, value, hsl_get(self))

\* Color.l (setter)
l_of(self, value, hsl) == rgb_set(self, hsl_to_rgb(hsl[1], hsl[2], value))

l_set(self, value) ==
    IF ~InUnit(value) THEN Failed("AssertionError", self)
    ELSE l_of(self, value, hsl_get(self))

\* x is a fraction with a power of two as its denominator: Python's float
\* holds x itself and not a neighbour of it
RECURSIVE PowerOfTwo(_)
PowerOfTwo(d) == d = 1 \/ (d % 2 = 0 /\ PowerOfTwo(d \div 2))

Dyadic(x) == PowerOfTwo(x.d)

\* hsl_to_rgb in floats, lines 91-116: with a chroma that is not 0 and a
\* lightness that is no float, c and m = l - c / 2 carry a rounding error,
\* and a component that is 0 or 1 in exact arithmetic (m, or c + m) can come
\* out one rounding error below 0 or above 1.  The fractions of this model
\* do not tell on which side the float falls; both are outcomes.
\* m is 0 when c = 2 * l, and c + m is 1 when c = 2 - 2 * l.
Overshoots(l, c) ==
    /\ ~Dyadic(l)
    /\ c # Zero
    /\ (c = FMul(Two, l) \/ c = FSub(Two, FMul(Two, l)))

\* the outcomes of a setter that hands hsl_to_rgb(h, s, l) to the rgb
\* setter: the outcome in exact arithmetic and, where the float can leave
\* [0, 1], the failure of the rgb setter's assertion (line 294)
Rounded(self, outcome, s, l) ==
    IF outcome.exc = ""
           /\ Overshoots(l, FMul(FSub(One, FAbs(FSub(FMul(Two, l), One))), s))
        THEN {outcome, Failed("AssertionError", self)}
        ELSE {outcome}

\* the outcomes of the h, s and l setters
h_outcomes(self, value, hsl) ==
    IF ~InUnit(value) THEN {Failed("AssertionError", self)}
    ELSE UNION {Rounded(self, outcome, hsl[2], hsl[3]) :
                   outcome \in {h_of(self, value, hsl)}}

s_outcomes(self, value, hsl) ==
    IF ~InUnit(value) THEN {Failed("AssertionError", self)}
    ELSE UNION {Rounded(self, outcome, value, hsl[3]) :
                   outcome \in {s_of(self, value, hsl)}}

l_outcomes(self, value, hsl) ==
    IF ~InUnit(value) THEN {Failed("AssertionError", self)}
    ELSE UNION {Rounded(self, outcome, hsl[2], value) :
                   outcome \in {l_of(self, value, hsl)}}

\* Color.alpha (setter)
alpha_set(self, value) ==
    IF ~InUnit(value) THEN Failed("AssertionError", self)
    ELSE Done([self EXCEPT !.a = Quantize(value)])

\* the new lightness is l * amount
darker_scaled(self, amount, hsl) ==
    hsl_set(self, <<hsl[1], hsl[2], FMul(hsl[3], amount), hsl[4]>>)

\* Color.darken
darker(self, amount, hsl) ==
    hsl_set(self, <<hsl[1], hsl[2],
                    FMax(Zero, FSub(hsl[3], FMul(hsl[3], amount))), hsl[4]>>)

darken(self, amount) ==
    IF ~InUnit(amount) THEN Failed("AssertionError", self)
    ELSE darker(self, amount, hsl_get(self))

\* the saturation is written as 0
lighter_desaturated(self, amount, hsl) ==
    hsl_set(self, <<hsl[1], Zero,
                    FMin(One, FAdd(hsl[3], FMul(FSub(One, hsl[3]), amount))),
                    hsl[4]>>)

\* Color.lighten
lighter(self, amount, hsl) ==
    hsl_set(self, <<hsl[1], hsl[2],
                    FMin(One, FAdd(hsl[3], FMul(FSub(One, hsl[3]), amount))),
                    hsl[4]>>)

lighten(self, amount) ==
    IF ~InUnit(amount) THEN Failed("AssertionError", self)
    ELSE lighter(self, amount, hsl_get(self))

\* Color.copy: a deep copy is a new object with the same four fields
copy(self) == MkColor(self.r, self.g, self.b, self.a)

\* Color.__str__: "r,g,b,a" of the four floats.  repr of a float is
\* one-to-one, so the text is one-to-one with the four components; it is
\* kept as the sequence of their fractions.
str(self) == <<self.r, self.g, self.b, self.a>>

\* two Colors are equal when their diff is 0
ColorEq_by_diff(self, compare) ==
    rgb_to_hsl(self.r, self.g, self.b)
        = rgb_to_hsl(compare.r, compare.g, compare.b)

\* Color.__eq__ between two Colors
ColorEq(self, compare) == rgb_get(self) = rgb_get(compare)

\* Color.__init__.  initial is one of
\*   [kind |-> "none"], [kind |-> "color", c |-> a Color],
\*   [kind |-> "str", s |-> a string], [kind |-> "tuple", t |-> a tuple]
\* (the components of a tuple are floats for RGB and HSL, ints for RGB255 and
\* HSL255).  "self = initial" rebinds the local name only.
InitSelf(self, initial, as) ==
    IF initial.kind = "none" THEN Done(self)
    ELSE IF initial.kind = "color" THEN Done(self)
    ELSE IF initial.kind = "str"
        THEN IF as = "HEX" THEN hex_set(self, initial.s) ELSE Done(self)
    ELSE IF 2 < Len(initial.t) /\ Len(initial.t) < 5
        THEN IF as \in {"RGB", "RGB255"}
                 THEN rgb_set(self, IF as = "RGB" THEN initial.t
                                    ELSE base_255_to_1(initial.t))
             ELSE IF as \in {"HSL", "HSL255"}
                 THEN hsl_set(self, IF as = "HSL" THEN initial.t
                                    ELSE base_255_to_1(initial.t))
             ELSE Done(self)
    ELSE Done(self)

ColorInit(initial, as) == InitSelf(DefaultColor, initial, as)

ColorMode == {"RGB", "HSL", "RGB255", "HSL255", "HEX"}

\* units per 1.0 of the fixed-point numbers Color.diff is computed in
DiffScale == 10000

\* the nearest fixed-point number to the float x
Fixed(x) == PyRound(FMul(x, FromInt(DiffScale)))

\* floor of the square root of n >= 0, searched between lo and hi
RECURSIVE SqrtBetween(_, _, _)
SqrtBetween(n, lo, hi) ==
    IF lo >= hi THEN lo
    ELSE IF ((lo + hi + 1) \div 2) * ((lo + hi + 1) \div 2) <= n
        THEN SqrtBetween(n, (lo + hi + 1) \div 2, hi)
    ELSE SqrtBetween(n, lo, ((lo + hi + 1) \div 2) - 1)

\* math.sqrt in fixed point: n is in units of 1 / DiffScale^2
Sqrt(n) == SqrtBetween(n, 0, 2 * DiffScale)

\* the three squares summed with equal weight
Distance_unweighted(dh, ds, dl) == Sqrt(dh * dh + ds * ds + dl * dl)

\* diff, lines 591-595, on the scaled component differences
Distance(dh, ds, dl) == Sqrt((dh * dh) * 2 + ds * ds + dl * dl)

\* the hue of the second triple is left out of the hue difference
Between_hue_of_first(a, b) ==
    Distance(Fixed(a[1]), Fixed(a[2]) - Fixed(b[2]), Fixed(a[3]) - Fixed(b[3]))

\* diff, lines 588-595: the distance of two hsl triples
Between(a, b) ==
    Distance(Fixed(a[1]) - Fixed(b[1]), Fixed(a[2]) - Fixed(b[2]),
             Fixed(a[3]) - Fixed(b[3]))

\* the difference of the two alphas is added to the distance
diff_with_alpha(self, compare) ==
    Between(hsl_get(self), hsl_get(compare))
        + Abs(Fixed(self.a) - Fixed(compare.a))

\* Color.diff: distance in HSL space with the hue term doubled and the hue
\* difference taken as is (no wrap-around); alpha is read and dropped
diff(self, compare) == Between(hsl_get(self), hsl_get(compare))

\* TRANSPARENT and BLACK as the module builds them
TRANSPARENT ==
    ColorInit([kind |-> "tuple", t |-> <<Zero, Zero, Zero, Zero>>], "RGB").self

BLACK ==
    ColorInit([kind |-> "tuple", t |-> <<Zero, Zero, Zero, One>>], "RGB").self

\* the 8-bit triples LEGO_COLORS_LIST is built from, in declaration order
LegoRGB255 ==
    << <<255, 255, 255>>, <<221, 222, 221>>, <<217, 187, 123>>,
       <<214, 114, 64>>, <<255, 0, 0>>, <<0, 0, 255>>, <<255, 255, 0>>,
       <<0, 0, 0>>, <<0, 153, 0>>, <<0, 204, 0>>, <<168, 61, 21>>,
       <<71, 140, 198>>, <<255, 102, 0>>, <<5, 157, 158>>, <<149, 185, 11>>,
       <<153, 0, 102>>, <<94, 116, 140>>, <<141, 116, 82>>, <<0, 37, 65>>,
       <<0, 51, 0>>, <<95, 130, 101>>, <<128, 8, 27>>, <<244, 155, 0>>,
       <<91, 28, 12>>, <<156, 146, 145>>, <<76, 81, 86>>, <<228, 228, 218>>,
       <<135, 192, 234>>, <<222, 55, 139>>, <<238, 157, 195>>,
       <<255, 255, 153>>, <<44, 21, 119>>, <<245, 193, 137>>, <<48, 15, 6>>,
       <<170, 125, 85>>, <<70, 155, 195>>, <<104, 195, 226>>,
       <<211, 242, 234>>, <<160, 110, 185>>, <<205, 164, 222>>,
       <<245, 243, 215>>, <<226, 249, 154>>, <<119, 119, 78>>,
       <<150, 185, 59>> >>

\* LEGO_COLORS_LIST: Color(triple, _as = ColorMode.RGB255) for each triple
LEGO_COLORS_LIST ==
    [i \in DOMAIN LegoRGB255 |->
        ColorInit([kind |-> "tuple", t |-> LegoRGB255[i]], "RGB255").self]

\* min(differences)
RECURSIVE MinOf(_)
Least(a, b) == IF a <= b THEN a ELSE b

MinOf(differences) ==
    IF Len(differences) = 1 THEN differences[1]
    ELSE Least(differences[1], MinOf(Tail(differences)))

\* the position of the last occurrence instead of the first
last_index(differences, value) ==
    CHOOSE i \in DOMAIN differences :
        /\ differences[i] = value
        /\ \A j \in DOMAIN differences : differences[j] = value => j <= i

\* differences.index(value): position of the first occurrence
RECURSIVE IndexOf(_, _)
IndexOf(differences, value) ==
    IF differences[1] = value THEN 1
    ELSE 1 + IndexOf(Tail(differences), value)

\* generateFilter, lines 281-287: the index of the closest palette colour
IndexOfMin(differences) == IndexOf(differences, MinOf(differences))

closest_color_index(new_color, lego) ==
    IndexOfMin([i \in DOMAIN lego |-> diff(new_color, lego[i])])

----------------------------------------------------------------------------
(* Inputs the operations are driven with                                   *)

NumFloats == 4

NumInts == 4

NumAmounts == 3

NumHex == 8

NumTuples == 6

MaxOps == 2

Prefix(pool, k) == {pool[i] : i \in 1..(IF k < Len(pool) THEN k ELSE Len(pool))}

\* floats written through the setters: a half step that rounds up to the
\* even 128, a half step that rounds down to the even 0, the top of the
\* range, a value above it, and others
FloatPool ==
    << Frac(1, 2), Frac(1, 510), One, Frac(256, 255), Zero, Frac(1, 3),
       Frac(-1, 255), Frac(3, 10) >>

Floats == Prefix(FloatPool, NumFloats)

\* 8-bit components for the RGB255 and HSL255 modes
IntPool == <<255, 0, 128, 1, 256, 127, 254>>

Ints == Prefix(IntPool, NumInts)

\* amounts for darken and lighten; 3/10 is the one make_stud_image uses
AmountPool == <<Frac(3, 10), Zero, One, Frac(1, 2), Frac(256, 255)>>

Amounts == Prefix(AmountPool, NumAmounts)

HexPool ==
    << <<"#", "f", "f", "0", "0", "0", "0">>,
       <<"D", "D", "D", "E", "D", "D">>,
       <<"#", "1", "2", "3", "4", "5", "6", "7", "8">>,
       <<"#", "f", "f", "f">>,
       <<"#", "g", "g", "0", "0", "0", "0">>,
       <<"#", "#", "0", "0", "0", "0", "f", "f", "f", "f">>,
       <<"#", "-", "1", "0", "0", "0", "0">>,
       <<"#", "0", "b", "6", "e", "1", "1">> >>

HexStrings == Prefix(HexPool, NumHex)

\* tuples of three components, and of four with the third repeating the second
TuplesOf(vals) ==
    {<<a, b, c>> : a \in vals, b \in vals, c \in vals}
        \cup {<<a, b, b, d>> : a \in vals, b \in vals, d \in vals}

\* tuples written through the rgb and hsl setters of an existing Color
TuplePool ==
    << <<Frac(1, 2), Frac(1, 510), One>>,
       <<Frac(1, 3), Frac(1, 2), Frac(3, 10), Frac(1, 2)>>,
       <<Zero, One, Frac(1, 170), Zero>>,
       <<One, Frac(1, 2), Zero, Frac(256, 255)>>,
       <<Frac(2, 3), One, Frac(1, 2)>>,
       <<Frac(1, 2), Frac(256, 255), Zero>>,
       <<Frac(-1, 255), Zero, Zero>>,
       <<Frac(5, 6), Frac(1, 510), Frac(9, 10), One>> >>

SetterTuples == Prefix(TuplePool, NumTuples)

\* what a caller can hand to Color(initial, _as)
Initials(as) ==
    {[kind |-> "none"]}
        \cup {[kind |-> "color", c |-> c] : c \in {TRANSPARENT, BLACK}}
        \cup {[kind |-> "str", s |-> txt] : txt \in HexStrings}
        \cup {[kind |-> "tuple", t |-> t] :
                 t \in IF as \in {"RGB", "HSL"} THEN TuplesOf(Floats)
                                                ELSE TuplesOf(Ints)}

----------------------------------------------------------------------------
(* State                                                                   *)

VARIABLES
    col,        \* the Color object under test
    origin,     \* how col was constructed, while no mutator has run on it
    last,       \* the last call: its name, argument, exception and result
    nops,       \* copies and mutator calls since col was constructed
    dup,        \* d, the object that d = col.copy() bound
    pm,         \* the PixelMap object (self in src/main.py)
    pc,         \* where PixelMap.__init__ and the module body stand
    new_image,  \* generateImage's canvas: the studs pasted so far
    colors,     \* the module-level objects of utils.colors
    report      \* the usage report the module body writes

vars == <<col, origin, last, nops, dup, pm, pc, new_image, colors, report>>

colorVars == <<col, origin, last, nops, dup>>

runVars == <<pm, pc, new_image, colors, report>>

Called(op, arg, outcome) ==
    [op |-> op, arg |-> arg, exc |-> outcome.exc, ret |-> <<>>]

\* no call has been made yet
NoCall == [op |-> "init", arg |-> <<>>, exc |-> "", ret |-> <<>>]

\* d is not bound yet
NoCopy == [made |-> FALSE, alias |-> FALSE, self |-> DefaultColor]

Stale == [initial |-> [kind |-> "none"], as |-> "RGB", fresh |-> FALSE]

\* the module-level Colors as import builds them
ModuleColors ==
    [TRANSPARENT |-> TRANSPARENT, BLACK |-> BLACK,
     LEGO_COLORS_LIST |-> LEGO_COLORS_LIST]

\* the report file is not written
NoReport == [heading |-> "", lines |-> <<>>]

\* no PixelMap has been constructed
NoPixelMap == [options |-> <<>>]

ColorInitState ==
    /\ col = DefaultColor
    /\ origin = [initial |-> [kind |-> "none"], as |-> "RGB", fresh |-> TRUE]
    /\ last = NoCall
    /\ nops = 0
    /\ dup = NoCopy

RunIdle ==
    /\ pm = NoPixelMap
    /\ pc = "idle"
    /\ new_image = <<>>
    /\ colors = ModuleColors
    /\ report = NoReport

----------------------------------------------------------------------------
(* Operations on a Color                                                   *)

\* col is as Color() left it and no call has been made on it
Pristine ==
    /\ origin = [initial |-> [kind |-> "none"], as |-> "RGB", fresh |-> TRUE]
    /\ last.op = "init"

Constructed(initial, as, outcome) ==
    /\ last' = Called("init", <<>>, outcome)
    /\ IF outcome.exc = ""
           THEN /\ col' = outcome.self
                /\ origin' = [initial |-> initial, as |-> as, fresh |-> TRUE]
                /\ nops' = 0
           ELSE UNCHANGED <<col, origin, nops>>
    /\ UNCHANGED <<dup, runVars>>

\* col = Color(initial, _as), the construction of the object under test; a
\* constructor that raises leaves no new object
Construct ==
    \E as \in ColorMode : \E initial \in Initials(as) :
        /\ Pristine
        /\ Constructed(initial, as, ColorInit(initial, as))


\* the calls that read col and leave it as it is
ReadOps == {"rgb255", "hsl", "hex", "hexa", "diff", "eq"}

\* no read has been made yet.  A call sequence is the construction, then
\* copies and mutator calls, then one read: a read changes no object, so a
\* read in between leads to no state of col that is not reached without it.
Unread == last.op \notin ReadOps

\* the effect of a mutator call on col; d sees it when d is the same object
Mutated(op, arg, outcome) ==
    /\ Unread
    /\ nops < MaxOps
    /\ col' = outcome.self
    /\ dup' = IF dup.alias THEN [dup EXCEPT !.self = outcome.self] ELSE dup
    /\ last' = Called(op, arg, outcome)
    /\ origin' = IF outcome.exc = "" THEN Stale ELSE origin
    /\ nops' = nops + 1
    /\ UNCHANGED runVars

SetRgb ==
    \E value \in SetterTuples : Mutated("rgb.setter", value, rgb_set(col, value))

SetHsl ==
    \E value \in SetterTuples : Mutated("hsl.setter", value, hsl_set(col, value))

SetHex ==
    \E value \in HexStrings : Mutated("hex.setter", value, hex_set(col, value))

SetR == \E value \in Floats : Mutated("r.setter", value, r_set(col, value))

SetG == \E value \in Floats : Mutated("g.setter", value, g_set(col, value))

SetB == \E value \in Floats : Mutated("b.setter", value, b_set(col, value))

SetH ==
    /\ Unread
    /\ nops < MaxOps
    /\ \E hsl \in {hsl_get(col)} : \E value \in Floats :
       \E outcome \in h_outcomes(col, value, hsl) :
           Mutated("h.setter", value, outcome)

SetS ==
    /\ Unread
    /\ nops < MaxOps
    /\ \E hsl \in {hsl_get(col)} : \E value \in Floats :
       \E outcome \in s_outcomes(col, value, hsl) :
           Mutated("s.setter", value, outcome)

SetL ==
    /\ Unread
    /\ nops < MaxOps
    /\ \E hsl \in {hsl_get(col)} : \E value \in Floats :
       \E outcome \in l_outcomes(col, value, hsl) :
           Mutated("l.setter", value, outcome)

SetAlpha ==
    \E value \in Floats : Mutated("alpha.setter", value, alpha_set(col, value))

Darken ==
    \E amount \in Amounts : Mutated("darken", amount, darken(col, amount))

Lighten ==
    \E amount \in Amounts : Mutated("lighten", amount, lighten(col, amount))

\* the effect of a read on col
Read(op, arg, result) ==
    /\ Unread
    /\ last' = [op |-> op, arg |-> arg, exc |-> result.exc, ret |-> result.ret]
    /\ UNCHANGED <<col, origin, nops, dup>>
    /\ UNCHANGED runVars

ReadRgb255 == Read("rgb255", <<>>, Return(rgb255(col)))

ReadHex == Read("hex", <<>>, hex_get(col))

ReadHexa == Read("hexa", <<>>, hexa(col))

\* col.hsl
ReadHsl == Read("hsl", <<>>, Return(hsl_get(col)))

\* d = col.copy() returns col itself
Duplicate_same(self) == [made |-> TRUE, alias |-> TRUE, self |-> self]

\* d = col.copy(): copy.deepcopy builds a new object, so d is not col
Duplicate(self) == [made |-> TRUE, alias |-> FALSE, self |-> copy(self)]

Copy ==
    /\ Unread
    /\ nops < MaxOps
    /\ ~dup.made
    /\ dup' = Duplicate(col)
    /\ last' = [op |-> "copy", arg |-> <<>>, exc |-> "", ret |-> <<>>]
    /\ nops' = nops + 1
    /\ UNCHANGED <<col, origin, runVars>>

\* the effect of a mutator call on d; col sees it when d is the same object
MutatedCopy(op, arg, outcome) ==
    /\ Unread
    /\ nops < MaxOps
    /\ dup.made
    /\ dup' = [dup EXCEPT !.self = outcome.self]
    /\ col' = IF dup.alias THEN outcome.self ELSE col
    /\ last' = Called(op, arg, outcome)
    /\ nops' = nops + 1
    /\ UNCHANGED <<origin, runVars>>

CopySetRgb ==
    \E value \in SetterTuples :
        MutatedCopy("d.rgb.setter", value, rgb_set(dup.self, value))

CopySetAlpha ==
    \E value \in Floats :
        MutatedCopy("d.alpha.setter", value, alpha_set(dup.self, value))

CopyDarken ==
    \E amount \in Amounts :
        MutatedCopy("d.darken", amount, darken(dup.self, amount))

CopyLighten ==
    \E amount \in Amounts :
        MutatedCopy("d.lighten", amount, lighten(dup.self, amount))

\* col == d
ReadEq ==
    /\ dup.made
    /\ Read("eq", dup.self, Return(ColorEq(col, dup.self)))

\* the Colors col is compared with: black and the palette's bright red
Compared == {BLACK, LEGO_COLORS_LIST[5]}

\* col.diff(compare), and col.diff(col)
ReadDiff ==
    \E compare \in Compared \cup {col} :
        Read("diff", compare, Return(diff(col, compare)))

Init == ColorInitState /\ RunIdle

Next ==
    \/ Construct
    \/ SetRgb
    \/ SetHsl
    \/ SetHex
    \/ SetR
    \/ SetG
    \/ SetB
    \/ SetH
    \/ SetS
    \/ SetL
    \/ SetAlpha
    \/ Darken
    \/ Lighten
    \/ ReadRgb255
    \/ ReadHex
    \/ ReadHexa
    \/ ReadHsl
    \/ ReadDiff
    \/ Copy
    \/ CopySetRgb
    \/ CopySetAlpha
    \/ CopyDarken
    \/ CopyLighten
    \/ ReadEq

Spec == Init /\ [][Next]_vars

----------------------------------------------------------------------------
(* PixelMap (src/main.py)                                                  *)

NumPixels == 3

MaxPixels == 4

\* stud_resolution as the module body passes it
StudRadius == 72

\* RGBA pixels of the resized image: an opaque colour at equal distance from
\* dark green and earth green, black (a palette colour) opaque and below the
\* transparency margin, a colour just off bright red, bright red fully
\* transparent and opaque, a half-transparent grey
PixelPool ==
    << <<3, 99, 39, 255>>, <<0, 0, 0, 255>>, <<0, 0, 0, 100>>,
       <<254, 0, 0, 255>>, <<255, 0, 0, 0>>, <<255, 0, 0, 255>>,
       <<128, 128, 128, 128>> >>

Pixels == Prefix(PixelPool, NumPixels)

\* the sizes of the resized image
Sizes ==
    {wh \in (1..MaxPixels) \X (1..MaxPixels) : wh[1] * wh[2] <= MaxPixels}

\* a dict is the sequence of its <<key, value>> items in insertion order
DictHas(d, k) == \E i \in DOMAIN d : d[i][1] = k

DictGet(d, k) == d[CHOOSE i \in DOMAIN d : d[i][1] = k][2]

\* a key that is absent gives the first palette entry
Lookup_or_first(d, k) ==
    IF DictHas(d, k) THEN Return(DictGet(d, k)) ELSE Return(1)

\* d[k] of a dict: the value, or KeyError when k is not a key
Lookup(d, k) ==
    IF DictHas(d, k) THEN Return(DictGet(d, k)) ELSE Raise("KeyError")

DictSet(d, k, v) ==
    IF DictHas(d, k)
        THEN [i \in DOMAIN d |-> IF d[i][1] = k THEN <<k, v>> ELSE d[i]]
        ELSE Append(d, <<k, v>>)

\* PixelMap.__init__, lines 114-145: the Options object and the empty
\* collections; transparent_color is Color(transparent_color), the image is
\* the one loadImage and resize leave
NewPixelMap(width, height, pixels, limit, keep, margin) ==
    [options |->
        [keep_removed_transparent_studs |-> keep,
         transparent_color |->
             ColorInit([kind |-> "color", c |-> TRANSPARENT], "RGB").self,
         transparent_margin |-> margin,
         limit_to_lego_only |-> limit,
         replace_colors |-> FALSE,
         stud_resolution |-> StudRadius],
     pixels |-> pixels,
     image_width |-> width,
     image_height |-> height,
     studs |-> <<>>,
     pixel_map |-> <<>>,
     image_colors |-> <<>>,
     color_filter |-> <<>>,
     color_filter_uses |-> <<>>]

\* every pixel_color is appended to image_colors
Mapped_all_listed(self, y, pixel_color) ==
    [self EXCEPT
        !.image_colors = Append(@, pixel_color),
        !.pixel_map =
            IF Len(@) < y + 1 THEN Append(@, <<pixel_color>>)
            ELSE [@ EXCEPT ![y + 1] = Append(@, pixel_color)]]

\* toMap, lines 201-207, for one pixel_color of row y
Mapped(self, y, pixel_color) ==
    [self EXCEPT
        !.image_colors =
            IF \E i \in DOMAIN @ : ColorEq(pixel_color, @[i]) THEN @
            ELSE Append(@, pixel_color),
        !.pixel_map =
            IF Len(@) < y + 1 THEN Append(@, <<pixel_color>>)
            ELSE [@ EXCEPT ![y + 1] = Append(@, pixel_color)]]

\* toMap, lines 197-199: Color(ColorConv.base_255_to_1(self.pixels[x, y]))
PixelColor(self, x, y) ==
    ColorInit([kind |-> "tuple", t |-> base_255_to_1(self.pixels[<<x, y>>])],
              "RGB").self

\* toMap from the k-th pixel on, x outermost
RECURSIVE MapFrom(_, _)
MapFrom(self, k) ==
    IF k = self.image_width * self.image_height THEN self
    ELSE MapFrom(Mapped(self, k % self.image_height,
                        PixelColor(self, k \div self.image_height,
                                   k % self.image_height)),
                 k + 1)

\* PixelMap.toMap
toMap(self) == MapFrom(self, 0)

\* the filter entry is set and the usage counter is left out
Filtered_uncounted(self, lego, original_color, index) ==
    [self EXCEPT !.color_filter = DictSet(@, str(original_color), index)]

\* generateFilter, lines 288-295: closest_color is lego[index], the entry of
\* the filter a reference to that palette object
Filtered(self, lego, original_color, index) ==
    [self EXCEPT
        !.color_filter = DictSet(@, str(original_color), index),
        !.color_filter_uses =
            IF DictHas(@, str(lego[index])) THEN @
            ELSE DictSet(@, str(lego[index]), 0)]

\* generateFilter, lines 276-277: the copy with alpha set to 1
Opaque(original_color) == alpha_set(copy(original_color), One).self

\* generateFilter from the k-th image colour on
RECURSIVE FilterFrom(_, _, _)
FilterFrom(self, lego, k) ==
    IF k > Len(self.image_colors) THEN self
    ELSE FilterFrom(
             Filtered(self, lego, self.image_colors[k],
                      closest_color_index(Opaque(self.image_colors[k]), lego)),
             lego, k + 1)

\* PixelMap.generateFilter
generateFilter(self, lego) == FilterFrom(self, lego, 1)

\* Stud.__init__ and Stud.make_stud_image: the stud's colour, whether it is
\* empty, and the fills of the three ellipses under the pasted text image
\* (nothing is drawn on an empty stud)
Stud(color, radius, black) ==
    [color |-> copy(color),
     radius |-> radius,
     empty |-> color.a = Zero,
     uses |-> 0,
     image |->
        IF color.a = Zero THEN <<>>
        ELSE <<rgb255(color), rgb255(black),
               rgb255(darken(copy(color), Frac(3, 10)).self)>>]

\* drawStud, lines 166-171: the fill after the alpha threshold
Thresholded(options, fill) ==
    alpha_set(copy(fill),
              IF FLe(options.transparent_margin, fill.a) THEN One ELSE Zero).self

Replaced(options, fill) ==
    IF fill.a = Zero /\ options.keep_removed_transparent_studs
        THEN copy(options.transparent_color)
        ELSE fill

\* the object handed to drawStud is the one the alpha is written to and the
\* stud darkens
Passed_written(options, fill) ==
    IF Thresholded(options, fill).a = Zero THEN Thresholded(options, fill)
    ELSE darken(Thresholded(options, fill), Frac(3, 10)).self

\* the object the caller handed to drawStud, as the call leaves it.  The
\* alpha is written to fill.copy() (lines 166-168), the stud keeps
\* color.copy() (line 29) and darkens self.color.copy() (line 84): while
\* copy returns a new object no write reaches the caller's object; if it
\* returned the object itself, the alpha and, on a stud that is not empty,
\* the darkening would.
Passed(options, fill) ==
    IF ~Duplicate(fill).alias THEN fill
    ELSE IF Thresholded(options, fill).a = Zero THEN Thresholded(options, fill)
    ELSE darken(Thresholded(options, fill), Frac(3, 10)).self

\* toMap, lines 201-202: the pixel at (x, y) is the first of its colour in
\* toMap's order (x outermost), so its Color object is the one appended to
\* image_colors
FirstSeen(self, x, y) ==
    \A k \in 0..(x * self.image_height + y - 1) :
        self.pixels[<<k \div self.image_height, k % self.image_height>>]
            # self.pixels[<<x, y>>]

\* image_colors[i] and pixel_map[y][x] are one object
Shares(self, i, x, y) ==
    /\ FirstSeen(self, x, y)
    /\ i = Cardinality({k \in 0..(x * self.image_height + y) :
                            FirstSeen(self, k \div self.image_height,
                                      k % self.image_height)})

\* generateImage, lines 232-236, without limit_to_lego_only: drawStud is
\* handed the object pixel_map[y][x]; the PixelMap with that object as the
\* call leaves it
Kept(self, x, y) ==
    IF self.options.limit_to_lego_only THEN self
    ELSE [self EXCEPT
             !.pixel_map[y + 1][x + 1] = Passed(self.options, @),
             !.image_colors =
                 [i \in DOMAIN @ |->
                     IF Shares(self, i, x, y) THEN Passed(self.options, @[i])
                     ELSE @[i]]]

\* generateImage, lines 232-236, with limit_to_lego_only: drawStud is
\* handed the palette object the filter names; the palette with that object
\* as the call leaves it
Palette(self, lego, x, y) ==
    IF self.options.limit_to_lego_only
        THEN [lego EXCEPT
                 ![DictGet(self.color_filter, str(self.pixel_map[y + 1][x + 1]))]
                     = Passed(self.options, @)]
        ELSE lego

\* drawStud, lines 181-189: the usage counts after the stud was made.  The
\* new Stud is in no list (Stud defines no __eq__ and self.studs stays
\* empty), and replace_colors is off under limit_to_lego_only.
Counted(self, lego, stud, fill) ==
    IF ~stud.empty /\ self.options.limit_to_lego_only
            /\ DictHas(self.color_filter, str(fill))
        THEN [self EXCEPT
                 !.color_filter_uses =
                     DictSet(@, str(lego[DictGet(self.color_filter, str(fill))]),
                             DictGet(@, str(lego[DictGet(self.color_filter,
                                                         str(fill))])) + 1)]
        ELSE self

\* generateImage, lines 232-234: the colour handed to drawStud
FillColor(self, lego, x, y) ==
    IF self.options.limit_to_lego_only
        THEN lego[Lookup(self.color_filter,
                         str(self.pixel_map[y + 1][x + 1])).ret]
        ELSE self.pixel_map[y + 1][x + 1]

\* the coordinates of the k-th stud of generateImage's loops, y outermost
StudX(self, k) == k % self.image_width

StudY(self, k) == k \div self.image_width

----------------------------------------------------------------------------
(* A run of PixelMap.__init__                                              *)

RunInit ==
    /\ col = DefaultColor
    /\ origin = [initial |-> [kind |-> "none"], as |-> "RGB", fresh |-> TRUE]
    /\ last = NoCall
    /\ nops = 0
    /\ dup = NoCopy
    /\ \E wh \in Sizes :
       \E pixels \in [(0..(wh[1] - 1)) \X (0..(wh[2] - 1)) -> Pixels] :
       \E limit \in BOOLEAN, keep \in BOOLEAN :
           pm = NewPixelMap(wh[1], wh[2], pixels, limit, keep, Frac(1, 2))
    /\ pc = "toMap"
    /\ new_image = <<>>
    /\ colors = ModuleColors
    /\ report = NoReport

\* self.toMap()
ToMap ==
    /\ pc = "toMap"
    /\ pm' = toMap(pm)
    /\ pc' = IF pm.options.limit_to_lego_only THEN "generateFilter"
              ELSE "generateImage"
    /\ UNCHANGED <<new_image, colors, report>>
    /\ UNCHANGED colorVars

\* self.generateFilter(), and a second call of it on the same PixelMap
GenerateFilter ==
    /\ pc \in {"generateFilter", "filtered"}
    /\ pm' = generateFilter(pm, colors.LEGO_COLORS_LIST)
    /\ pc' = IF pc = "generateFilter" THEN "filtered" ELSE "refiltered"
    /\ UNCHANGED <<new_image, colors, report>>
    /\ UNCHANGED colorVars

\* generateImage, lines 222-226: the canvas before the first stud
GenerateImage ==
    /\ pc \in {"generateImage", "filtered", "refiltered"}
    /\ new_image' = <<>>
    /\ pc' = "studs"
    /\ UNCHANGED <<pm, colors, report>>
    /\ UNCHANGED colorVars

\* drawStud on the fill of the k-th stud: the stud is made, counted and
\* pasted at its coordinates; the objects the PixelMap and the palette hold
\* are as the call leaves them
Drawn(k, fill, stud) ==
    /\ pm' = Counted(Kept(pm, StudX(pm, k), StudY(pm, k)),
                     colors.LEGO_COLORS_LIST, stud, fill)
    /\ colors' =
           [colors EXCEPT
               !.LEGO_COLORS_LIST = Palette(pm, @, StudX(pm, k), StudY(pm, k))]
    /\ new_image' =
           Append(new_image,
                  [coords |-> <<StudX(pm, k) * (2 * StudRadius),
                                StudY(pm, k) * (2 * StudRadius)>>,
                   stud |-> stud])

DrawFill(k, fill) ==
    Drawn(k, fill, Stud(fill, pm.options.stud_resolution, colors.BLACK))

\* line 234 raises: the colour of the k-th stud's pixel is no key of the
\* filter
Missing(self, k) ==
    /\ self.options.limit_to_lego_only
    /\ Lookup(self.color_filter,
              str(self.pixel_map[StudY(self, k) + 1][StudX(self, k) + 1])).exc
           # ""

\* one pass of generateImage's inner loop, lines 229-236, drawStud included;
\* a KeyError of line 234 ends the run
DrawStud ==
    /\ pc = "studs"
    /\ Len(new_image) < pm.image_width * pm.image_height
    /\ IF Missing(pm, Len(new_image))
           THEN /\ pc' = "KeyError"
                /\ UNCHANGED <<pm, new_image, colors, report>>
           ELSE /\ DrawFill(Len(new_image),
                         Replaced(pm.options,
                             Thresholded(pm.options,
                                 FillColor(pm, colors.LEGO_COLORS_LIST,
                                           StudX(pm, Len(new_image)),
                                           StudY(pm, Len(new_image))))))
                /\ UNCHANGED <<pc, report>>
    /\ UNCHANGED colorVars

\* generateImage, line 240: the image is saved
SaveImage ==
    /\ pc = "studs"
    /\ Len(new_image) = pm.image_width * pm.image_height
    /\ pc' = "done"
    /\ UNCHANGED <<pm, new_image, colors, report>>
    /\ UNCHANGED colorVars

\* the position of the first item of the largest count
RECURSIVE FirstLargest(_, _, _)
FirstLargest(items, k, best) ==
    IF k > Len(items) THEN best
    ELSE FirstLargest(items, k + 1,
                      IF items[k][2] > items[best][2] THEN k ELSE best)

\* the items without the k-th
Without(items, k) == SubSeq(items, 1, k - 1) \o SubSeq(items, k + 1, Len(items))

\* line 338: sorted(items, key = count, reverse = True), a stable sort, so
\* items of one count stay in the order of the dict
RECURSIVE sorted_byuses(_)
sorted_byuses(items) ==
    IF items = <<>> THEN <<>>
    ELSE <<items[FirstLargest(items, 1, 1)]>>
             \o sorted_byuses(Without(items, FirstLargest(items, 1, 1)))

\* lines 345-349: the four columns of the line written for one item; the
\* second is the text 'HEX CODE', character by character as hex codes are
ReportLine(item) ==
    <<"COLOR ID", <<"H", "E", "X", " ", "C", "O", "D", "E">>, item[2],
      "COLOR NAME">>

\* the module body, lines 337-349: the report of a limit_to_lego_only run
WriteReport ==
    /\ pc = "done"
    /\ pm.options.limit_to_lego_only
    /\ report' =
           [heading |-> "Colors used in image",
            lines |-> [i \in DOMAIN pm.color_filter_uses |->
                          ReportLine(sorted_byuses(pm.color_filter_uses)[i])]]
    /\ pc' = "reported"
    /\ UNCHANGED <<pm, new_image, colors>>
    /\ UNCHANGED colorVars

RunNext ==
    \/ ToMap
    \/ GenerateFilter
    \/ GenerateImage
    \/ DrawStud
    \/ SaveImage
    \/ WriteReport

RunSpec == RunInit /\ [][RunNext]_vars

----------------------------------------------------------------------------
(* Properties of the Color value type                                      *)

\* x is k/255 for an integer k in 0..255
OnGrid(x) == \E k \in 0..Res : x = Frac(k, Res)

Wrote(op) == last.op = op /\ last.exc = ""

\* C1: after any sequence of successful constructions and writes, each of
\* the four stored components lies in [0,1] and is k/255 for an integer k in
\* 0..255.
C1_StoredOnGrid ==
    /\ InUnit(col.r) /\ OnGrid(col.r)
    /\ InUnit(col.g) /\ OnGrid(col.g)
    /\ InUnit(col.b) /\ OnGrid(col.b)
    /\ InUnit(col.a) /\ OnGrid(col.a)

\* a second successful write has stored the quantized image of values that
\* are off the 1/255 grid (h = 1/3, s = 1/2, l = 3/10 give 38.25, 114.75)
C1_Witness ==
    /\ Wrote("hsl.setter")
    /\ nops = 2
    /\ col.g = Frac(115, Res)
    /\ col.a = Frac(128, Res)

\* C2: a Color constructed in RGB255 mode from an integer triple (r,g,b)
\* reads back through rgb255 as (r,g,b,255); the first three components are
\* the input.
C2_Rgb255RoundTrip ==
    (/\ last.op = "rgb255"
     /\ origin.fresh
     /\ origin.as = "RGB255"
     /\ origin.initial.kind = "tuple")
        => /\ SubSeq(last.ret, 1, 3) = SubSeq(origin.initial.t, 1, 3)
           /\ Len(origin.initial.t) = 3 => last.ret[4] = 255

C2_Witness ==
    /\ last.op = "rgb255"
    /\ origin.fresh
    /\ origin.as = "RGB255"
    /\ origin.initial = [kind |-> "tuple", t |-> <<1, 128, 255>>]
    /\ last.ret = <<1, 128, 255, 255>>

----------------------------------------------------------------------------
(* Properties of a run                                                     *)

Limited == pm.options.limit_to_lego_only

FilterBuilt ==
    Limited /\ pc \in {"filtered", "refiltered", "studs", "done", "reported"}

Lego == colors.LEGO_COLORS_LIST

\* the distances of a source colour, alpha forced to 1, to the palette
Distances(c) == [j \in DOMAIN Lego |-> diff([c EXCEPT !.a = One], Lego[j])]

\* i is the lowest index at which ds is minimal
LowestMinimum(ds, i) ==
    /\ i \in DOMAIN ds
    /\ \A j \in DOMAIN ds : ds[i] <= ds[j] /\ (j < i => ds[i] < ds[j])

\* the palette indices the filter maps to
Targets == {pm.color_filter[i][2] : i \in DOMAIN pm.color_filter}

\* the source pixel of the k-th stud (k counts from 1) and its palette match
SourcePixel(k) == pm.pixel_map[StudY(pm, k - 1) + 1][StudX(pm, k - 1) + 1]

MatchOf(c) == DictGet(pm.color_filter, str(c))

BelowMargin(c) == FLt(c.a, pm.options.transparent_margin)

\* C3: once the filter is built, and again after generateFilter has run a
\* second time, every source colour of image_colors has exactly one entry,
\* and it is the palette entry of the lowest index whose diff to the source
\* colour made opaque is minimal over the whole palette.
C3_FilterIsLowestNearest ==
    FilterBuilt =>
        /\ Len(pm.color_filter) = Len(pm.image_colors)
        /\ \A k \in DOMAIN pm.image_colors :
              /\ pm.color_filter[k][1] = str(pm.image_colors[k])
              /\ LowestMinimum(Distances(pm.image_colors[k]),
                               pm.color_filter[k][2])

\* generateFilter has run twice on an image holding the colour (3,99,39),
\* whose distance to dark green (9th) and to earth green (20th) is the same:
\* the filter names the 9th
C3_Witness ==
    /\ pc = "refiltered"
    /\ \E k \in DOMAIN pm.image_colors :
          /\ rgb255(pm.image_colors[k]) = <<3, 99, 39, 255>>
          /\ Distances(pm.image_colors[k])[9] = Distances(pm.image_colors[k])[20]
          /\ pm.color_filter[k][2] = 9

\* C4: at the end of a limit_to_lego_only run the usage count of every match
\* target equals the number of rendered, non-empty studs whose source pixel
\* is not transparent and is matched to it.
C4_UsageCountsStuds ==
    (Limited /\ pc = "done") =>
        \A p \in Targets :
            DictGet(pm.color_filter_uses, str(Lego[p])) =
                Cardinality({k \in DOMAIN new_image :
                                /\ ~new_image[k].stud.empty
                                /\ ~BelowMargin(SourcePixel(k))
                                /\ MatchOf(SourcePixel(k)) = p})

\* C5: in a limit_to_lego_only run, rendering the stud of a source pixel
\* whose alpha is below transparent_margin changes no usage count.
C5_TransparentNotCounted ==
    [][(/\ Limited
        /\ pc = "studs"
        /\ Len(new_image') = Len(new_image) + 1
        /\ BelowMargin(SourcePixel(Len(new_image')))) =>
            pm'.color_filter_uses = pm.color_filter_uses]_vars

\* C6: with keep_removed_transparent_studs off, the stud of every source
\* pixel whose alpha is below transparent_margin is empty, with and without
\* limit_to_lego_only.
C6_TransparentStudEmpty ==
    \A k \in DOMAIN new_image :
        (~pm.options.keep_removed_transparent_studs
            /\ BelowMargin(SourcePixel(k))) =>
                new_image[k].stud.empty

\* C7: once the filter is built every match target is a key of
\* color_filter_uses, and before any stud is rendered its count is 0.
C7_TargetsAreCounted ==
    FilterBuilt =>
        \A p \in Targets :
            /\ DictHas(pm.color_filter_uses, str(Lego[p]))
            /\ pc \in {"filtered", "refiltered"} =>
                  DictGet(pm.color_filter_uses, str(Lego[p])) = 0

\* a run has ended with two match targets, one counted and one (dark green)
\* still at 0 though a stud was rendered for it
C7_Witness ==
    /\ Limited
    /\ pc = "done"
    /\ Targets = {8, 9}
    /\ DictGet(pm.color_filter_uses, str(Lego[9])) = 0
    /\ DictGet(pm.color_filter_uses, str(Lego[8])) > 0

----------------------------------------------------------------------------
(* Properties of construction and of the hex conversions                   *)

\* the construction supplied no alpha
NoAlphaGiven ==
    \/ origin.initial.kind = "none"
    \/ origin.initial.kind = "tuple" /\ Len(origin.initial.t) = 3
    \/ /\ origin.initial.kind = "str"
       /\ origin.as = "HEX"
       /\ Len(lstrip(origin.initial.s)) = 6

\* C8: every construction that supplies no alpha (no input, a 3-element
\* tuple in any mode, a 6-digit hex string) yields alpha exactly 1.0.
C8_DefaultAlphaOpaque ==
    (origin.fresh /\ NoAlphaGiven) => col.a = One

\* C9: for an opaque Color c, hex_to_rgb(c.hex) is c's (r,g,b,alpha), so the
\* Color built in HEX mode from c.hex equals c.
C9_HexRoundTrip ==
    (last.op = "hex" /\ col.a = One) =>
        /\ last.exc = ""
        /\ hex_to_rgb(last.ret) = Return(rgb_get(col))
        /\ ColorInit([kind |-> "str", s |-> last.ret], "HEX") = Done(col)

\* C10: for every Color c, c.hexa succeeds with '#' and eight lowercase hex
\* digits, and hex_to_rgb of it is c's (r,g,b,alpha).
C10_HexaRoundTrip ==
    last.op = "hexa" =>
        /\ last.exc = ""
        /\ Len(last.ret) = 9
        /\ last.ret[1] = "#"
        /\ \A i \in 2..9 : \E d \in DOMAIN HexDigits : last.ret[i] = HexDigits[d]
        /\ hex_to_rgb(last.ret) = Return(rgb_get(col))

----------------------------------------------------------------------------
(* Properties of validation, diff, copy and equality                       *)

TupleWrites == {"rgb.setter", "hsl.setter"}

Writes ==
    TupleWrites \cup {"r.setter", "g.setter", "b.setter", "h.setter",
                      "s.setter", "l.setter", "alpha.setter",
                      "darken", "lighten"}

\* the argument of the write has a component outside [0, 1]
OutOfRange(op, arg) ==
    IF op \in TupleWrites THEN \E i \in DOMAIN arg : ~InUnit(arg[i])
    ELSE ~InUnit(arg)

\* the step is a call of a mutator of col
IsWrite == nops' = nops + 1 /\ last'.op \in Writes

WeightedSquares(a, b) ==
    2 * (Fixed(a[1]) - Fixed(b[1])) * (Fixed(a[1]) - Fixed(b[1]))
        + (Fixed(a[2]) - Fixed(b[2])) * (Fixed(a[2]) - Fixed(b[2]))
        + (Fixed(a[3]) - Fixed(b[3])) * (Fixed(a[3]) - Fixed(b[3]))

\* d is the square root of n, to the unit
IsSqrtOf(d, n) == d >= 0 /\ d * d <= n /\ n < (d + 1) * (d + 1)

C21_DiffSymmetric ==
    last.op = "diff" =>
        /\ last.ret = diff(last.arg, col)
        /\ last.arg = col => last.ret = 0
        /\ diff(last.arg, last.arg) = 0

\* the diff of a Color that has a hue to bright red, whose hue is 0, has
\* been taken after two writes, and it is not 0
C21_Witness ==
    /\ last.op = "diff"
    /\ hsl_get(col)[1] # Zero
    /\ nops = 2
    /\ last.arg = LEGO_COLORS_LIST[5]
    /\ last.ret > 0

\* the calls that mutate d
CopyWrites == {"d.rgb.setter", "d.alpha.setter", "d.darken", "d.lighten"}

\* C14: d = col.copy() is equal to col, a mutation of d leaves the four
\* components of col as they were, and a mutation of col those of d.
C14_CopyIsIndependent ==
    [][/\ (nops' = nops + 1 /\ last'.op = "copy") =>
              (dup'.made /\ ColorEq(dup'.self, col') /\ col' = col)
       /\ (nops' = nops + 1 /\ last'.op \in CopyWrites) => col' = col
       /\ (nops' = nops + 1 /\ dup.made
              /\ last'.op \in Writes \cup {"hex.setter"}) =>
              dup'.self = dup.self]_vars

\* d was copied from a Color other than the default one and then darkened:
\* d has changed and col has not
C14_Witness ==
    /\ dup.made
    /\ last.op = "d.darken"
    /\ last.exc = ""
    /\ dup.self # col
    /\ origin.fresh
    /\ col # DefaultColor

\* C15: col == d is True exactly when the four stored components of the
\* two are the same; it is not the test diff = 0.
C15_EqualIffSameComponents ==
    last.op = "eq" =>
        (last.ret <=> /\ col.r = last.arg.r
                      /\ col.g = last.arg.g
                      /\ col.b = last.arg.b
                      /\ col.a = last.arg.a)

\* col and d have the same r, g, b, a diff of 0 and different alphas, and
\* col == d was False
C15_Witness ==
    /\ last.op = "eq"
    /\ last.ret = FALSE
    /\ col.r = last.arg.r /\ col.g = last.arg.g /\ col.b = last.arg.b
    /\ col.a # last.arg.a
    /\ diff(col, last.arg) = 0
    /\ col.r # col.g

\* the text without one leading '#', when it has one
WithoutHash(txt) ==
    IF txt # <<>> /\ Head(txt) = "#" THEN Tail(txt) ELSE txt

\* six or eight hexadecimal digits after one optional '#'
ValidHex(txt) ==
    /\ Len(WithoutHash(txt)) \in {6, 8}
    /\ \A i \in DOMAIN WithoutHash(txt) : IsHexDigit(WithoutHash(txt)[i])

\* C13: hex_to_rgb, and the hex setter with it, raises exactly when the
\* string, one optional leading '#' removed, is not 6 or 8 hexadecimal
\* digits; a hex setter that raises leaves the Color as it was.
C13_HexFailsExactlyOnInvalid ==
    [][(nops' = nops + 1 /\ last'.op = "hex.setter") =>
           /\ hex_to_rgb(last'.arg).exc # "" <=> ~ValidHex(last'.arg)
           /\ last'.exc # "" <=> ~ValidHex(last'.arg)
           /\ last'.exc # "" => col' = col]_vars

----------------------------------------------------------------------------
(* Properties of darken, lighten and the HSL conversions                   *)

\* the step is col.darken(amount) or col.lighten(amount), amount in [0, 1]
IsShade(op) == nops' = nops + 1 /\ last'.op = op /\ InUnit(last'.arg)

\* l - l*amount for darken and l + (1-l)*amount for lighten
NewLightness(op, l, amount) ==
    IF op = "darken" THEN FSub(l, FMul(l, amount))
    ELSE FAdd(l, FMul(FSub(One, l), amount))

\* the r, g, b that hue h, saturation s and the new lightness quantise to
Shaded(op, hsl, amount) ==
    clamp_to_255_res(
        hsl_to_rgb(hsl[1], hsl[2], NewLightness(op, hsl[3], amount)))

\* C16 as the spec states it: after darken or lighten with an amount in
\* [0,1], the hue, the saturation and the alpha read back are the ones read
\* before the call.
C16_HueSaturationAlphaKept ==
    [][(IsShade("darken") \/ IsShade("lighten")) =>
           /\ hsl_get(col')[1] = hsl_get(col)[1]
           /\ hsl_get(col')[2] = hsl_get(col)[2]
           /\ col'.a = col.a]_vars

\* C16, amended: after darken or lighten with an amount in [0,1] the alpha
\* is the one before the call, and the stored r, g, b are hsl_to_rgb of the
\* hue and saturation read before the call and the new lightness, quantised
\* to 1/255 (the hue and saturation read back from them may differ).
C16_AlphaKeptHueSaturationWritten ==
    [][(IsShade("darken") \/ IsShade("lighten")) =>
           /\ last'.exc = ""
           /\ col'.a = col.a
           /\ <<col'.r, col'.g, col'.b>>
                  = Shaded(last'.op, hsl_get(col), last'.arg)]_vars

\* a half-transparent Color that has a hue has been lightened by 3/10
C16_Witness ==
    /\ last.op = "lighten"
    /\ last.arg = Frac(3, 10)
    /\ last.exc = ""
    /\ col.a = Frac(128, Res)
    /\ hsl_get(col)[2] # Zero

\* C17: the lightness read back after darken with an amount in [0,1] is at
\* most the lightness before, after lighten at least; darken(1) leaves
\* lightness 0 and lighten(1) lightness 1.
C17_LightnessMonotone ==
    [][/\ IsShade("darken") =>
              /\ FLe(hsl_get(col')[3], hsl_get(col)[3])
              /\ last'.arg = One => hsl_get(col')[3] = Zero
       /\ IsShade("lighten") =>
              /\ FLe(hsl_get(col)[3], hsl_get(col')[3])
              /\ last'.arg = One => hsl_get(col')[3] = One]_vars

\* darken(1) has made a half-transparent Color black
C17_Witness ==
    /\ last.op = "darken"
    /\ last.arg = One
    /\ last.exc = ""
    /\ col = MkColor(Zero, Zero, Zero, Frac(128, Res))

\* C18: darken(0) and lighten(0) succeed and leave r, g, b and alpha as
\* they were.
C18_ZeroAmountIsIdentity ==
    [][((IsShade("darken") \/ IsShade("lighten")) /\ last'.arg = Zero) =>
           (last'.exc = "" /\ col' = col)]_vars

\* lighten(0) has been called on (255, 0, 128), a Color of the sixth sextant
C18_Witness ==
    /\ last.op = "lighten"
    /\ last.arg = Zero
    /\ last.exc = ""
    /\ rgb255(col) = <<255, 0, 128, 255>>

\* each of the three components of t is within 1/255 of that of c
WithinStep(t, c) ==
    /\ FLe(FAbs(FSub(t[1], c.r)), Frac(1, Res))
    /\ FLe(FAbs(FSub(t[2], c.g)), Frac(1, Res))
    /\ FLe(FAbs(FSub(t[3], c.b)), Frac(1, Res))

\* C19: hsl_to_rgb of the hsl read from a Color is within 1/255 of its
\* r, g, b in each channel, and writing col.hsl = col.hsl leaves it as it is.
C19_HslRoundTrip ==
    last.op = "hsl" =>
        /\ WithinStep(hsl_to_rgb(last.ret[1], last.ret[2], last.ret[3]), col)
        /\ hsl_set(col, last.ret) = Done(col)

\* the hsl of a Color with three different channels and an alpha below 1,
\* reached by two writes, has been read
C19_Witness ==
    /\ last.op = "hsl"
    /\ nops = 2
    /\ col.r # col.g /\ col.g # col.b /\ col.r # col.b
    /\ col.a # One

\* C20: rgb_to_hsl of components on the 1/255 grid returns h in [0,1) and
\* s and l in [0,1], and h = 0 and s = 0 for a gray.
C20_HslInRange ==
    last.op = "hsl" =>
        /\ FLe(Zero, last.ret[1]) /\ FLt(last.ret[1], One)
        /\ InUnit(last.ret[2])
        /\ InUnit(last.ret[3])
        /\ (col.r = col.g /\ col.g = col.b) =>
               (last.ret[1] = Zero /\ last.ret[2] = Zero)

\* the hsl of a Color whose largest channel is red and whose green is below
\* its blue has been read: the hue, negative before the wrap, is above 1/2
C20_Witness ==
    /\ last.op = "hsl"
    /\ FLt(col.b, col.r) /\ FLt(col.g, col.b)
    /\ FLt(Frac(1, 2), last.ret[1])

\* the step is a write of one HSL component of col with a value in [0, 1]
IsHslWrite(op) == nops' = nops + 1 /\ last'.op = op /\ InUnit(last'.arg)

\* r, g, b after the step are the quantised hsl_to_rgb of h, s, l, and the
\* alpha is the one before
Recomputed(h, s, l) ==
    /\ <<col'.r, col'.g, col'.b>> = clamp_to_255_res(hsl_to_rgb(h, s, l))
    /\ col'.a = col.a

\* C25: a write through the h, s or l setter sets r, g, b to the quantised
\* hsl_to_rgb of the hsl read before the write with that one component
\* replaced, and leaves alpha as it was.
C25_SingleHslWrite ==
    [][/\ IsHslWrite("h.setter") =>
              Recomputed(last'.arg, hsl_get(col)[2], hsl_get(col)[3])
       /\ IsHslWrite("s.setter") =>
              Recomputed(hsl_get(col)[1], last'.arg, hsl_get(col)[3])
       /\ IsHslWrite("l.setter") =>
              Recomputed(hsl_get(col)[1], hsl_get(col)[2], last'.arg)]_vars

\* what holds of these writes: one that does not raise has recomputed
\* r, g, b as C25 says, and one that raises has left the Color as it was
HslWriteOrRaise ==
    [][/\ IsHslWrite("h.setter") =>
              IF last'.exc = ""
                  THEN Recomputed(last'.arg, hsl_get(col)[2], hsl_get(col)[3])
                  ELSE col' = col
       /\ IsHslWrite("s.setter") =>
              IF last'.exc = ""
                  THEN Recomputed(hsl_get(col)[1], last'.arg, hsl_get(col)[3])
                  ELSE col' = col
       /\ IsHslWrite("l.setter") =>
              IF last'.exc = ""
                  THEN Recomputed(hsl_get(col)[1], hsl_get(col)[2], last'.arg)
                  ELSE col' = col]_vars

\* C27: a Color constructed from an existing Color c is equal to c: it has
\* the r, g, b and alpha of c (so that Color(TRANSPARENT), the
\* transparent_color of a PixelMap's options, has alpha 0).
C27_ColorFromColor ==
    (origin.fresh /\ origin.initial.kind = "color") =>
        (ColorEq(col, origin.initial.c) /\ col = origin.initial.c)

----------------------------------------------------------------------------
(* Properties of matching, the palette and the report                      *)

\* the alphas a Color is given before its diff is taken again: neither is
\* the alpha of a palette colour or of a pixel of the image
Alphas == {Zero, Frac(1, 2)}

\* the two Colors have the same r, g and b
SameRgb(a, b) == a.r = b.r /\ a.g = b.g /\ a.b = b.b

\* C22: when generateFilter returns, the diff of a source colour to a
\* palette colour is the same after the alpha of either has been set to
\* another value, and two source colours that differ only in alpha have the
\* same palette entry in the filter.
C22_AlphaNotInMatching ==
    pc \in {"filtered", "refiltered"} =>
        /\ \A i \in DOMAIN pm.image_colors : \A p \in DOMAIN Lego :
           \A x \in Alphas :
              /\ diff(alpha_set(pm.image_colors[i], x).self, Lego[p])
                     = diff(pm.image_colors[i], Lego[p])
              /\ diff(pm.image_colors[i], alpha_set(Lego[p], x).self)
                     = diff(pm.image_colors[i], Lego[p])
        /\ \A i \in DOMAIN pm.image_colors : \A j \in DOMAIN pm.image_colors :
              SameRgb(pm.image_colors[i], pm.image_colors[j]) =>
                  pm.color_filter[i][2] = pm.color_filter[j][2]

\* the filter is built for an image that holds black with alpha 255 and
\* with alpha 100: two source colours, two keys, one palette entry (black)
C22_Witness ==
    /\ pc = "filtered"
    /\ \E i \in DOMAIN pm.image_colors : \E j \in DOMAIN pm.image_colors :
          /\ rgb255(pm.image_colors[i]) = <<0, 0, 0, 255>>
          /\ rgb255(pm.image_colors[j]) = <<0, 0, 0, 100>>
          /\ pm.color_filter[i][1] # pm.color_filter[j][1]
          /\ pm.color_filter[i][2] = 8
          /\ pm.color_filter[j][2] = 8

\* C23: throughout a run no entry of LEGO_COLORS_LIST, and neither
\* TRANSPARENT nor BLACK, has a component changed, and the palette has the
\* length and the order it was built with.
C23_PaletteUnchanged ==
    /\ colors.LEGO_COLORS_LIST = LEGO_COLORS_LIST
    /\ colors.TRANSPARENT = TRANSPARENT
    /\ colors.BLACK = BLACK

\* a limit_to_lego_only run has ended in which the stud of dark green was
\* drawn from the palette object, with the shade darkened by 3/10
C23_Witness ==
    /\ Limited
    /\ pc = "done"
    /\ \E k \in DOMAIN new_image :
          /\ ~new_image[k].stud.empty
          /\ MatchOf(SourcePixel(k)) = 9
          /\ new_image[k].stud.image[1] = <<0, 153, 0, 255>>
          /\ new_image[k].stud.image[3] = <<0, 107, 0, 255>>

\* the Color a key of color_filter_uses is the text of
KeyColor(key) == MkColor(key[1], key[2], key[3], key[4])

\* C24: the report of a limit_to_lego_only run has one line per key of the
\* usage counts, the counts do not increase from line to line, and each
\* line carries the count of its colour in the third column and that
\* colour's hex code in the second (the first and the fourth column are to
\* be its catalog id and its display name).
C24_ReportLines ==
    pc = "reported" =>
        /\ Len(report.lines) = Len(pm.color_filter_uses)
        /\ \A i \in DOMAIN report.lines : \A j \in DOMAIN report.lines :
              i < j => report.lines[i][3] >= report.lines[j][3]
        /\ \E order \in [DOMAIN report.lines -> DOMAIN pm.color_filter_uses] :
              /\ \A i \in DOMAIN report.lines : \A j \in DOMAIN report.lines :
                    order[i] = order[j] => i = j
              /\ \A i \in DOMAIN report.lines :
                    /\ report.lines[i][3] = pm.color_filter_uses[order[i]][2]
                    /\ report.lines[i][2]
                           = hex_get(KeyColor(
                                 pm.color_filter_uses[order[i]][1])).ret

\* what the report does have: one line per key of the usage counts, the
\* counts not increasing from line to line, the count in the third column
ReportIsSortedUsage ==
    pc = "reported" =>
        /\ Len(report.lines) = Len(pm.color_filter_uses)
        /\ \A i \in DOMAIN report.lines : \A j \in DOMAIN report.lines :
              i < j => report.lines[i][3] >= report.lines[j][3]
        /\ \E order \in [DOMAIN report.lines -> DOMAIN pm.color_filter_uses] :
              /\ \A i \in DOMAIN report.lines : \A j \in DOMAIN report.lines :
                    order[i] = order[j] => i = j
              /\ \A i \in DOMAIN report.lines :
                    report.lines[i][3] = pm.color_filter_uses[order[i]][2]

\* the Colors of the pixels an image can hold
PoolColors ==
    {ColorInit([kind |-> "tuple", t |-> base_255_to_1(p)], "RGB").self :
        p \in Pixels}

\* C26: in a limit_to_lego_only run the filter is built when the studs are
\* rendered and the colour of every pixel is one of its keys, so the lookup
\* of generateImage never raises KeyError; the lookup of a colour that is
\* not a key raises KeyError and returns no colour.
C26_FilterCoversPixels ==
    /\ pc # "KeyError"
    /\ (Limited /\ pc = "studs") =>
           /\ Len(pm.color_filter) > 0
           /\ \A y \in DOMAIN pm.pixel_map : \A x \in DOMAIN pm.pixel_map[y] :
                 Lookup(pm.color_filter, str(pm.pixel_map[y][x])).exc = ""
    /\ FilterBuilt =>
           \A c \in PoolColors :
               ~(\E i \in DOMAIN pm.image_colors : ColorEq(c, pm.image_colors[i]))
                   => Lookup(pm.color_filter, str(c)).exc = "KeyError"

\* every stud of an image of two colours, one of them below the margin, has
\* been rendered through the filter, and a third colour is not a key of it
C26_Witness ==
    /\ Limited
    /\ pc = "done"
    /\ Len(new_image) > 1
    /\ Len(pm.color_filter) = 2
    /\ \E k \in DOMAIN new_image : BelowMargin(SourcePixel(k))
    /\ \E c \in PoolColors : ~DictHas(pm.color_filter, str(c))

\* toMap has run
MapBuilt == pc # "toMap"

\* C28: from toMap on, through the rendering of every stud, pixel_map has
\* image_height rows of image_width colours and pixel_map[y][x] is the
\* colour of source pixel (x, y); no two colours of image_colors are equal,
\* every colour of pixel_map is in image_colors, and image_colors holds
\* nothing else.
C28_MapIsTheImage ==
    MapBuilt =>
        /\ Len(pm.pixel_map) = pm.image_height
        /\ \A y \in DOMAIN pm.pixel_map :
              /\ Len(pm.pixel_map[y]) = pm.image_width
              /\ \A x \in DOMAIN pm.pixel_map[y] :
                    /\ rgb255(pm.pixel_map[y][x]) = pm.pixels[<<x - 1, y - 1>>]
                    /\ \E i \in DOMAIN pm.image_colors :
                          ColorEq(pm.image_colors[i], pm.pixel_map[y][x])
        /\ \A i \in DOMAIN pm.image_colors : \A j \in DOMAIN pm.image_colors :
              ColorEq(pm.image_colors[i], pm.image_colors[j]) => i = j
        /\ \A i \in DOMAIN pm.image_colors :
              \E y \in DOMAIN pm.pixel_map : \E x \in DOMAIN pm.pixel_map[y] :
                  pm.image_colors[i] = pm.pixel_map[y][x]

\* a run without limit_to_lego_only on an image of two rows and two
\* columns has ended: a pixel below the margin, which occurs twice, gave
\* empty studs, and pixel_map still holds it with its alpha of 100
C28_Witness ==
    /\ ~Limited
    /\ pc = "done"
    /\ pm.image_width = 2
    /\ pm.image_height = 2
    /\ Len(pm.image_colors) = 3
    /\ \E k \in DOMAIN new_image :
          /\ new_image[k].stud.empty
          /\ rgb255(SourcePixel(k)) = <<0, 0, 0, 100>>
          /\ pm.pixels[<<StudX(pm, k - 1), StudY(pm, k - 1)>>] = <<0, 0, 0, 100>>

====
